---- MODULE Spec2Model ----
(***************************************************************************)
(* Model of src/eval.py: the benchmarking harness of preimage-attacks.     *)
(*                                                                         *)
(*   eval_solver                 the sweep of one solver over the datasets *)
(*   __main__                    the driver: six sweeps, then the plot     *)
(*   plot_stats, log_ticks       the comparison plot and its tick range    *)
(*   plot_factors_vs_difficulty  the factor tally per dataset              *)
(*                                                                         *)
(* optimization.main.main and optimization.main.load_factors are not part  *)
(* of src/; Fragment, Instances and FactorCollections model what they      *)
(* return from the description of the two collaborators.                   *)
(*                                                                         *)
(* Numbers.  A problem size is an integer.  A runtime is kept in           *)
(* milliseconds.  A value on a logarithmic axis (what np.log10 returns) is *)
(* kept in fixed point, in units of 1/Scale.                               *)
(***************************************************************************)
EXTENDS Integers, Sequences, FiniteSets, TLC

\* ------------------------------------------------------------------ bounds
MaxDatasets == 3         \* longest dataset list handed to eval_solver
MaxInst == 2             \* most instances inside one dataset
MaxSolvers == 3          \* most solvers in a stats mapping handed to plot_stats
MaxPts == 2              \* longest measurement array of such a mapping
MaxTickPts == 2          \* longest array handed to log_ticks on its own
MaxFactors == 2          \* most factors inside one factor collection
MaxFactorDatasets == 2   \* longest dataset list handed to plot_factors_vs_difficulty
MaxLog == 2              \* largest magnitude of a value handed to log_ticks
Scale == 4               \* fixed point: a logarithm is kept in units of 1/Scale

\* --------------------------------------------------------- program constants
Ladder == <<1, 4, 8, 12, 16>>

SolverList ==
  <<"gurobi_milp", "cplex_milp", "ortools_cp", "ortools_milp", "minisat", "crypto_minisat">>

Solvers == {SolverList[k] : k \in 1..Len(SolverList)}

VARIABLES
  solver,        \* eval_solver: argument
  datasets,      \* eval_solver: argument, a sequence of dataset paths
  difficulties,  \* eval_solver: argument
  instances,     \* environment: the number of instances inside each dataset
  eval_pc,       \* eval_solver: "idle", "loop", "dump", "return", "returned"
  eval_i,        \* eval_solver: datasets whose iteration has completed
  total_stats,   \* eval_solver: the record being accumulated
  ret,           \* eval_solver: <<>> or <<the returned record>>
  files,         \* the file system: stats file of each solver, <<>> or <<content>>
  log,           \* history: the external calls made, in order
  main_pc,       \* __main__: "none", "factors", "sweeps", "plot"
  stats,         \* the stats mapping, as the sequence of its values in key order
  plot_pc,       \* plot_stats: "idle", "loop", "done", "raised"
  plot_k,        \* plot_stats: items of the mapping the loop has gone through
  plot_i,        \* plot_stats: i, the index of the next color
  all_x,         \* plot_stats
  all_y,         \* plot_stats
  drawn,         \* the axes: what scatter and plot have drawn, in order
  skipped,       \* the console: the solvers reported as skipped
  axis,          \* the axes: <<>> or <<ticks and labels of both axes>>
  saved,         \* the file system: the figures saved, in order
  tick_pc,       \* log_ticks on its own: "call", "done", "raised"
  tick_x,        \* log_ticks on its own: the argument
  tick_out,      \* log_ticks on its own: <<>> or <<the value returned>>
  fac_pc,        \* plot_factors_vs_difficulty: "idle", "loop", "done"
  fac_datasets,  \* plot_factors_vs_difficulty: argument datasets
  fac_difficulties, \* plot_factors_vs_difficulty: argument difficulties
  save_to,       \* plot_factors_vs_difficulty: argument, <<>> (None) or <<path>>
  fac_i,         \* plot_factors_vs_difficulty: datasets tallied so far
  factors,       \* plot_factors_vs_difficulty: the collection loaded last
  factor_counts, \* plot_factors_vs_difficulty: the tally of that collection
  num_prior,     \* plot_factors_vs_difficulty
  num_and,       \* plot_factors_vs_difficulty
  num_inv,       \* plot_factors_vs_difficulty
  num_same,      \* plot_factors_vs_difficulty
  fac_lines      \* the axes: <<>> or <<the lines and ticks plot_factors_vs_difficulty set>>

evalVars == <<solver, datasets, difficulties, instances, eval_pc, eval_i,
              total_stats, ret, files>>

plotVars == <<plot_pc, plot_k, plot_i, all_x, all_y, drawn, skipped, axis>>

tickVars == <<tick_pc, tick_x, tick_out>>

factorVars == <<fac_pc, fac_datasets, fac_difficulties, save_to, fac_i, factors,
                factor_counts, num_prior, num_and, num_inv, num_same, fac_lines>>

vars == <<evalVars, log, main_pc, stats, plotVars, saved, tickVars, factorVars>>

\* ----------------------------------------------------------------- helpers
RECURSIVE Pow10(_)
Pow10(e) == IF e <= 0 THEN 1 ELSE 10 * Pow10(e - 1)

RECURSIVE SumTo(_, _)
\* f[1] + ... + f[n]
SumTo(f, n) == IF n = 0 THEN 0 ELSE f[n] + SumTo(f, n - 1)

\* 'data/sha256_d%d' % d
DatasetPath(d) == <<"data/sha256_d", d>>

DatasetsOf(diffs) == [k \in 1..Len(diffs) |-> DatasetPath(diffs[k])]

\* ------------------------------------------ the solve collaborator (main)
\* The size of the problem built for d rounds: 10, 100, ... along the ladder.
SizeExp(d) == (d \div 4) + 1

\* What main(dataset, solver) returns when it does not raise: one entry per
\* instance of the dataset in each of the four lists.
Fragment(dataset, n) ==
  LET d == dataset[2] IN
  [problem_size |-> [j \in 1..n |-> Pow10(SizeExp(d))],
   difficulty   |-> [j \in 1..n |-> d],
   runtime      |-> [j \in 1..n |-> Pow10(SizeExp(d) + j - 2)],
   success      |-> [j \in 1..n |-> j % 2 = 1]]

\* ------------------------------------------------------------- eval_solver
\* Lines 98-104.
EmptyStats(s) ==
  [solver |-> s, problem_size |-> <<>>, difficulty |-> <<>>, runtime |-> <<>>,
   success |-> <<>>]

\* Mutant of Accumulate: the runtime list is not extended.
AccumulateNoRuntime(total, frag) ==
  [total EXCEPT !.problem_size = @ \o frag.problem_size,
                !.difficulty = @ \o frag.difficulty,
                !.success = @ \o frag.success]

\* Mutant of Accumulate: the fragment is put in front of what was collected.
AccumulatePrepend(total, frag) ==
  [total EXCEPT !.problem_size = frag.problem_size \o @,
                !.difficulty = frag.difficulty \o @,
                !.runtime = frag.runtime \o @,
                !.success = frag.success \o @]

\* Lines 112-115.
Accumulate(total, frag) ==
  [total EXCEPT !.problem_size = @ \o frag.problem_size,
                !.difficulty = @ \o frag.difficulty,
                !.runtime = @ \o frag.runtime,
                !.success = @ \o frag.success]

\* Mutant of OnRaise: 'continue' in place of 'break'.
OnRaiseContinue(i) == [pc |-> "loop", i |-> i + 1]

\* Mutant of OnRaise: the failing dataset is tried again.
OnRaiseRetry(i) == [pc |-> "loop", i |-> i]

\* Mutant of OnRaise: the exception is raised again and leaves eval_solver.
OnRaisePropagate(i) == [pc |-> "crashed", i |-> i]

\* Lines 110-111: where the loop stands after main raised.
OnRaise(i) == [pc |-> "dump", i |-> i]

\* Mutant of StatsFile: one file name for every solver.
StatsFileShared(s) == "gurobi_milp"

\* Line 117: '%s_stats.yaml' % solver, named here by the solver it belongs to.
StatsFile(s) == s

Event(op, s, arg, raised) == [op |-> op, solver |-> s, arg |-> arg, raised |-> raised]

\* Lines 106-109, 112-115: main returns the fragment of dataset eval_i.
SolveOk ==
  /\ eval_pc = "loop"
  /\ eval_i < Len(datasets)
  /\ LET frag == Fragment(datasets[eval_i + 1], instances[eval_i + 1]) IN
       total_stats' = Accumulate(total_stats, frag)
  /\ eval_i' = eval_i + 1
  /\ log' = Append(log, Event("main", solver, eval_i, FALSE))
  /\ UNCHANGED <<solver, datasets, difficulties, instances, eval_pc, ret, files>>
  /\ UNCHANGED <<main_pc, stats, plotVars, saved, tickVars, factorVars>>

\* Lines 106-111: main raises on the dataset eval_i.
SolveRaise ==
  /\ eval_pc = "loop"
  /\ eval_i < Len(datasets)
  /\ eval_pc' = OnRaise(eval_i).pc
  /\ eval_i' = OnRaise(eval_i).i
  /\ log' = Append(log, Event("main", solver, eval_i, TRUE))
  /\ UNCHANGED <<solver, datasets, difficulties, instances, total_stats, ret, files>>
  /\ UNCHANGED <<main_pc, stats, plotVars, saved, tickVars, factorVars>>

\* Line 106: the datasets are exhausted.
LoopEnd ==
  /\ eval_pc = "loop"
  /\ eval_i >= Len(datasets)
  /\ eval_pc' = "dump"
  /\ UNCHANGED <<solver, datasets, difficulties, instances, eval_i, total_stats, ret,
                 files, log>>
  /\ UNCHANGED <<main_pc, stats, plotVars, saved, tickVars, factorVars>>

\* Lines 117-120.
Dump ==
  /\ eval_pc = "dump"
  /\ files' = [files EXCEPT ![StatsFile(solver)] = <<total_stats>>]
  /\ log' = Append(log, Event("dump", solver, 0, FALSE))
  /\ eval_pc' = "return"
  /\ UNCHANGED <<solver, datasets, difficulties, instances, eval_i, total_stats, ret>>
  /\ UNCHANGED <<main_pc, stats, plotVars, saved, tickVars, factorVars>>

\* Line 121.
Return ==
  /\ eval_pc = "return"
  /\ ret' = <<total_stats>>
  /\ eval_pc' = "returned"
  /\ UNCHANGED <<solver, datasets, difficulties, instances, eval_i, total_stats,
                 files, log>>
  /\ UNCHANGED <<main_pc, stats, plotVars, saved, tickVars, factorVars>>

\* The number of instances inside each of n datasets.
Instances(n) == [1..n -> 1..MaxInst]

\* plot_stats is not running.
PlotIdle ==
  /\ plot_pc = "idle"
  /\ plot_k = 0
  /\ plot_i = 0
  /\ all_x = <<>>
  /\ all_y = <<>>
  /\ drawn = <<>>
  /\ skipped = <<>>
  /\ axis = <<>>

\* log_ticks is not being called on its own.
TickIdle ==
  /\ tick_pc = "idle"
  /\ tick_x = <<>>
  /\ tick_out = <<>>

\* plot_factors_vs_difficulty is not running.
FactorIdle ==
  /\ fac_pc = "idle"
  /\ fac_datasets = <<>>
  /\ fac_difficulties = <<>>
  /\ save_to = <<>>
  /\ fac_i = 0
  /\ factors = <<>>
  /\ factor_counts = <<>>
  /\ num_prior = <<>>
  /\ num_and = <<>>
  /\ num_inv = <<>>
  /\ num_same = <<>>
  /\ fac_lines = <<>>

\* eval_solver(solver, datasets, difficulties) entered, lines 98-104 done.
InitEval ==
  /\ solver \in Solvers
  /\ \E n \in 0..MaxDatasets :
       /\ difficulties = SubSeq(Ladder, 1, n)
       /\ datasets = DatasetsOf(SubSeq(Ladder, 1, n))
       /\ instances \in Instances(n)
  /\ eval_pc = "loop"
  /\ eval_i = 0
  /\ total_stats = EmptyStats(solver)
  /\ ret = <<>>
  /\ files = [s \in Solvers |-> <<>>]
  /\ log = <<>>
  /\ main_pc = "none"
  /\ stats = <<>>
  /\ PlotIdle
  /\ saved = <<>>
  /\ TickIdle
  /\ FactorIdle

NextEval == SolveOk \/ SolveRaise \/ LoopEnd \/ Dump \/ Return

SpecEval == InitEval /\ [][NextEval]_vars

\* ----------------------------------------------------------------- numbers
SeqRange(x) == {x[j] : j \in 1..Len(x)}

\* np.min, np.max of a non-empty array.
SeqMin(x) == CHOOSE v \in SeqRange(x) : \A w \in SeqRange(x) : v <= w

SeqMax(x) == CHOOSE v \in SeqRange(x) : \A w \in SeqRange(x) : v >= w

\* np.round of a fixed-point value: to the nearest integer, a tie to the even one.
Round(v) ==
  LET q == v \div Scale
      r == v % Scale
  IN IF 2 * r < Scale THEN q
     ELSE IF 2 * r > Scale THEN q + 1
     ELSE IF q % 2 = 0 THEN q ELSE q + 1

\* range(a, b): a, a+1, ..., b-1.
PyRange(a, b) == [k \in 1..(IF b > a THEN b - a ELSE 0) |-> a + k - 1]

RECURSIVE ILog10(_)
ILog10(v) == IF v < 10 THEN 0 ELSE 1 + ILog10(v \div 10)

\* np.log10 of a positive integer, in fixed point; exact on the powers of ten,
\* which are the only values the measurements of this model take.
Log10(v) == Scale * ILog10(v)

\* np.log10 of an array of problem sizes.
LogSizes(a) == [j \in 1..Len(a) |-> Log10(a[j])]

\* np.log10 of an array of runtimes: a runtime of r milliseconds is r/1000 s.
LogRuntimes(a) == [j \in 1..Len(a) |-> Log10(a[j]) - Log10(1000)]

RECURSIVE SeqSum(_)
SeqSum(x) == IF x = <<>> THEN 0 ELSE x[1] + SeqSum(Tail(x))

\* np.polyfit(x, y, 1) for len(x) = len(y): the least-squares line y = m x + b,
\* m = m_num / den and b = b_num / den.  den = 0 when the points do not
\* determine a line; numpy then warns and returns least-norm coefficients.
Polyfit(x, y) ==
  LET n == Len(x)
      Sx == SeqSum(x)
      Sy == SeqSum(y)
      Sxx == SeqSum([j \in 1..n |-> x[j] * x[j]])
      Sxy == SeqSum([j \in 1..n |-> x[j] * y[j]])
  IN [m_num |-> n * Sxy - Sx * Sy,
      b_num |-> Sy * Sxx - Sx * Sxy,
      den   |-> n * Sxx - Sx * Sx]

\* --------------------------------------------------------------- log_ticks
\* Lines 12-17.
log_ticks(x) ==
  LET x_min == Round(SeqMin(x)) - 1
      x_max == Round(SeqMax(x)) + 1
      ticks == PyRange(x_min, x_max)
  IN [ticks |-> ticks, labels |-> [k \in 1..Len(ticks) |-> <<"10^", ticks[k]>>]]

\* log_ticks(tick_x) for a non-empty tick_x.
TickCall ==
  /\ tick_pc = "call"
  /\ tick_x # <<>>
  /\ tick_out' = <<log_ticks(tick_x)>>
  /\ tick_pc' = "done"
  /\ UNCHANGED <<evalVars, log, main_pc, stats, plotVars, saved, tick_x, factorVars>>

\* log_ticks(tick_x) for an empty tick_x: np.min raises ValueError (line 13).
TickRaise ==
  /\ tick_pc = "call"
  /\ tick_x = <<>>
  /\ tick_pc' = "raised"
  /\ UNCHANGED <<evalVars, log, main_pc, stats, plotVars, saved, tick_x, tick_out, factorVars>>

\* The values an array of logarithms may hold: -MaxLog .. MaxLog in steps of 1/Scale.
TickValues == (0 - MaxLog * Scale)..(MaxLog * Scale)

\* The arrays of n such values.
TickInputs(n) == [1..n -> TickValues]

\* eval_solver is not running.
EvalIdle ==
  /\ solver = "none"
  /\ datasets = <<>>
  /\ difficulties = <<>>
  /\ instances = <<>>
  /\ eval_pc = "idle"
  /\ eval_i = 0
  /\ total_stats = EmptyStats("none")
  /\ ret = <<>>
  /\ files = [s \in Solvers |-> <<>>]

InitTicks ==
  /\ EvalIdle
  /\ log = <<>>
  /\ main_pc = "none"
  /\ stats = <<>>
  /\ PlotIdle
  /\ saved = <<>>
  /\ tick_pc = "call"
  /\ \E n \in 0..MaxTickPts : tick_x \in TickInputs(n)
  /\ tick_out = <<>>
  /\ FactorIdle

NextTicks == TickCall \/ TickRaise

SpecTicks == InitTicks /\ [][NextTicks]_vars

\* -------------------------------------------------------------- plot_stats
\* np.linspace(0, 1, n), each sample as the fraction <<numerator, denominator>>.
Linspace01(n) == [k \in 1..n |-> IF n = 1 THEN <<0, 1>> ELSE <<k - 1, n - 1>>]

\* The color the color map gives for the sample v.
Cmap(v) == [cmap |-> "gnuplot", at |-> v]

\* Lines 27-28.
Colors(n) == [k \in 1..n |-> Cmap(Linspace01(n)[k])]

\* Mutant of ColorIndex: the color is picked by the position in the mapping.
ColorIndexByPosition(k, i) == k

\* Lines 42-43: colors[i]; k is the position of the solver in the mapping.
ColorIndex(k, i) == i

\* Line 34.
IsEmptyData(x, y) == Len(x) = 0 \/ Len(y) = 0

\* Lines 31-36: a solver without data is skipped.
PlotSkip ==
  /\ plot_pc = "loop"
  /\ plot_k < Len(stats)
  /\ LET item == stats[plot_k + 1]
         x == LogSizes(item.val.problem_size)
         y == LogRuntimes(item.val.runtime)
     IN /\ IsEmptyData(x, y)
        /\ skipped' = Append(skipped, item.key)
  /\ plot_k' = plot_k + 1
  /\ UNCHANGED <<plot_pc, plot_i, all_x, all_y, drawn, axis>>
  /\ UNCHANGED <<evalVars, log, main_pc, stats, saved, tickVars, factorVars>>

\* Lines 31-47: a solver with data is fitted and drawn.
PlotDraw ==
  /\ plot_pc = "loop"
  /\ plot_k < Len(stats)
  /\ LET item == stats[plot_k + 1]
         x == LogSizes(item.val.problem_size)
         y == LogRuntimes(item.val.runtime)
         colors == Colors(Len(stats))
     IN /\ ~IsEmptyData(x, y)
        /\ Len(x) = Len(y)
        /\ drawn' = Append(drawn,
             [solver |-> item.key, x |-> x, y |-> y, fit |-> Polyfit(x, y),
              scatter_color |-> colors[ColorIndex(plot_k, plot_i) + 1],
              line_color |-> colors[ColorIndex(plot_k, plot_i) + 1]])
        /\ all_x' = all_x \o x
        /\ all_y' = all_y \o y
  /\ plot_i' = plot_i + 1
  /\ plot_k' = plot_k + 1
  /\ UNCHANGED <<plot_pc, skipped, axis>>
  /\ UNCHANGED <<evalVars, log, main_pc, stats, saved, tickVars, factorVars>>

\* Line 38: np.polyfit raises TypeError when x and y differ in length.
PlotFitRaise ==
  /\ plot_pc = "loop"
  /\ plot_k < Len(stats)
  /\ LET item == stats[plot_k + 1]
         x == LogSizes(item.val.problem_size)
         y == LogRuntimes(item.val.runtime)
     IN /\ ~IsEmptyData(x, y)
        /\ Len(x) # Len(y)
  /\ plot_pc' = "raised"
  /\ UNCHANGED <<plot_k, plot_i, all_x, all_y, drawn, skipped, axis>>
  /\ UNCHANGED <<evalVars, log, main_pc, stats, saved, tickVars, factorVars>>

\* Lines 49-63: the loop is over and some solver had data.
PlotFinish ==
  /\ plot_pc = "loop"
  /\ plot_k = Len(stats)
  /\ all_x # <<>>
  /\ LET xt == log_ticks(all_x)
         yt == log_ticks(all_y)
     IN axis' = <<[x_ticks |-> xt.ticks, x_labels |-> xt.labels,
                   y_ticks |-> yt.ticks, y_labels |-> yt.labels]>>
  /\ saved' = Append(saved, "images/solve_times.pdf")
  /\ plot_pc' = "done"
  /\ UNCHANGED <<plot_k, plot_i, all_x, all_y, drawn, skipped>>
  /\ UNCHANGED <<evalVars, log, main_pc, stats, tickVars, factorVars>>

\* Line 50: the loop is over and no solver had data; log_ticks is handed an empty
\* array and np.min raises ValueError (line 13).
PlotTicksRaise ==
  /\ plot_pc = "loop"
  /\ plot_k = Len(stats)
  /\ all_x = <<>>
  /\ plot_pc' = "raised"
  /\ UNCHANGED <<plot_k, plot_i, all_x, all_y, drawn, skipped, axis>>
  /\ UNCHANGED <<evalVars, log, main_pc, stats, saved, tickVars, factorVars>>

\* A record of a stats mapping with nx problem sizes and ny runtimes, for the
\* k-th solver of the list.
PlotRecord(k, nx, ny) ==
  [solver |-> SolverList[k],
   problem_size |-> [j \in 1..nx |-> Pow10(j)],
   difficulty |-> [j \in 1..nx |-> j],
   runtime |-> [j \in 1..ny |-> Pow10(j + k - 2)],
   success |-> [j \in 1..ny |-> TRUE]]

\* The stats mappings of the first n solvers handed to plot_stats, each solver
\* with 0..MaxPts problem sizes and 0..MaxPts runtimes.
PlotInputs(n) ==
  {[k \in 1..n |-> [key |-> SolverList[k], val |-> PlotRecord(k, sh[k][1], sh[k][2])]] :
     sh \in [1..n -> (0..MaxPts) \X (0..MaxPts)]}

\* plot_stats(stats) entered, lines 21-29 done.
InitPlot ==
  /\ EvalIdle
  /\ log = <<>>
  /\ main_pc = "none"
  /\ \E n \in 0..MaxSolvers : stats \in PlotInputs(n)
  /\ plot_pc = "loop"
  /\ plot_k = 0
  /\ plot_i = 0
  /\ all_x = <<>>
  /\ all_y = <<>>
  /\ drawn = <<>>
  /\ skipped = <<>>
  /\ axis = <<>>
  /\ saved = <<>>
  /\ TickIdle
  /\ FactorIdle

NextPlot == PlotSkip \/ PlotDraw \/ PlotFitRaise \/ PlotFinish \/ PlotTicksRaise

SpecPlot == InitPlot /\ [][NextPlot]_vars

\* ---------------------------------------------------------------- __main__
\* Line 127, as one step: the figure of the factor counts is saved.
MainPlotFactors ==
  /\ main_pc = "factors"
  /\ saved' = Append(saved, "images/sha256_factors.pdf")
  /\ log' = Append(log, Event("plot_factors", "none", 0, FALSE))
  /\ main_pc' = "sweeps"
  /\ UNCHANGED <<evalVars, stats, plotVars, tickVars, factorVars>>

\* Lines 131-136: eval_solver is called for the next solver of the literal;
\* lines 98-104 set up its record.
MainCall ==
  /\ main_pc = "sweeps"
  /\ eval_pc = "idle"
  /\ Len(stats) < Len(SolverList)
  /\ solver' = SolverList[Len(stats) + 1]
  /\ total_stats' = EmptyStats(SolverList[Len(stats) + 1])
  /\ eval_i' = 0
  /\ ret' = <<>>
  /\ eval_pc' = "loop"
  /\ UNCHANGED <<datasets, difficulties, instances, files>>
  /\ UNCHANGED <<log, main_pc, stats, plotVars, saved, tickVars, factorVars>>

\* Lines 131-136: the record returned becomes the value of the solver's key.
MainCollect ==
  /\ main_pc = "sweeps"
  /\ eval_pc = "returned"
  /\ stats' = Append(stats, [key |-> SolverList[Len(stats) + 1], val |-> ret[1]])
  /\ eval_pc' = "idle"
  /\ UNCHANGED <<solver, datasets, difficulties, instances, eval_i, total_stats, ret, files>>
  /\ UNCHANGED <<log, main_pc, plotVars, saved, tickVars, factorVars>>

\* Line 138, lines 21-29: plot_stats is called with the mapping of all six.
MainPlotStats ==
  /\ main_pc = "sweeps"
  /\ eval_pc = "idle"
  /\ Len(stats) = Len(SolverList)
  /\ plot_pc' = "loop"
  /\ log' = Append(log, Event("plot_stats", "none", 0, FALSE))
  /\ main_pc' = "plot"
  /\ UNCHANGED <<plot_k, plot_i, all_x, all_y, drawn, skipped, axis>>
  /\ UNCHANGED <<evalVars, stats, saved, tickVars, factorVars>>

\* The instances inside the datasets of the ladder: two and one in turn.
MainInstances == {[k \in 1..Len(Ladder) |-> 1 + (k % 2)]}

\* Lines 125-126.
InitMain ==
  /\ solver = "none"
  /\ difficulties = Ladder
  /\ datasets = DatasetsOf(Ladder)
  /\ instances \in MainInstances
  /\ eval_pc = "idle"
  /\ eval_i = 0
  /\ total_stats = EmptyStats("none")
  /\ ret = <<>>
  /\ files = [s \in Solvers |-> <<>>]
  /\ log = <<>>
  /\ main_pc = "factors"
  /\ stats = <<>>
  /\ PlotIdle
  /\ saved = <<>>
  /\ TickIdle
  /\ FactorIdle

NextMain ==
  \/ MainPlotFactors
  \/ MainCall
  \/ SolveOk
  \/ SolveRaise
  \/ LoopEnd
  \/ Dump
  \/ Return
  \/ MainCollect
  \/ MainPlotStats
  \/ PlotSkip
  \/ PlotDraw
  \/ PlotFinish
  \/ PlotTicksRaise

SpecMain == InitMain /\ [][NextMain]_vars

\* ---------------------------------------------- plot_factors_vs_difficulty
\* The category tags a factor may carry; "XOR" stands for every tag that is not
\* one of the four that are counted.
FactorTypes == {"PRIOR", "SAME", "AND", "INV", "XOR"}

\* What load_factors may return: a mapping from the factor ids 1..n to factors.
FactorCollections(n) == [1..n -> [factor_type : FactorTypes]]

\* Mutant of Increment: '= 1' in place of '+= 1'.
IncrementAssignsOne(counts, t) ==
  IF t \in DOMAIN counts THEN [counts EXCEPT ![t] = 1] ELSE counts @@ (t :> 1)

\* Line 74 on a defaultdict(lambda: 0): a missing key starts from 0.
Increment(counts, t) ==
  IF t \in DOMAIN counts THEN [counts EXCEPT ![t] = @ + 1] ELSE counts @@ (t :> 0 + 1)

RECURSIVE TallyFrom(_, _, _)
\* Lines 73-74 from the k-th factor on.
TallyFrom(fs, k, counts) ==
  IF k > Len(fs) THEN counts
  ELSE TallyFrom(fs, k + 1, Increment(counts, fs[k].factor_type))

\* Lines 72-74.
Tally(fs) == TallyFrom(fs, 1, <<>>)

\* factor_counts[t] on a defaultdict(lambda: 0): the value, 0 for a missing key.
Lookup(counts, t) == IF t \in DOMAIN counts THEN counts[t] ELSE 0

\* Lines 75-78 leave every key that was looked up in the defaultdict.
AfterLookups(counts) == counts @@ [t \in {"PRIOR", "SAME", "AND", "INV"} |-> 0]

\* Lines 69-78: one dataset is loaded and tallied.
FactorStep ==
  /\ fac_pc = "loop"
  /\ fac_i < Len(fac_datasets)
  /\ \E n \in 0..MaxFactors : \E fs \in FactorCollections(n) :
       LET counts == Tally(fs) IN
       /\ factors' = fs
       /\ factor_counts' = AfterLookups(counts)
       /\ num_prior' = Append(num_prior, Lookup(counts, "PRIOR"))
       /\ num_same' = Append(num_same, Lookup(counts, "SAME"))
       /\ num_and' = Append(num_and, Lookup(counts, "AND"))
       /\ num_inv' = Append(num_inv, Lookup(counts, "INV"))
  /\ fac_i' = fac_i + 1
  /\ UNCHANGED <<fac_pc, fac_datasets, fac_difficulties, save_to, fac_lines>>
  /\ UNCHANGED <<evalVars, log, main_pc, stats, plotVars, saved, tickVars>>

\* Lines 84-87.
FactorLines ==
  <<[label |-> "PRIOR", x |-> fac_difficulties, y |-> num_prior],
    [label |-> "SAME", x |-> fac_difficulties, y |-> num_same],
    [label |-> "AND", x |-> fac_difficulties, y |-> num_and],
    [label |-> "INV", x |-> fac_difficulties, y |-> num_inv]>>

\* Line 89: np.linspace(1, 64, 8).
FactorXTicks == [k \in 1..8 |-> 1 + (k - 1) * ((64 - 1) \div (8 - 1))]

\* Lines 80-94 with a save_to: the figure is saved, then shown.
FactorFinishSave ==
  /\ fac_pc = "loop"
  /\ fac_i = Len(fac_datasets)
  /\ save_to # <<>>
  /\ fac_lines' = <<[lines |-> FactorLines, xticks |-> FactorXTicks]>>
  /\ saved' = Append(saved, save_to[1])
  /\ fac_pc' = "done"
  /\ UNCHANGED <<fac_datasets, fac_difficulties, save_to, fac_i, factors, factor_counts,
                 num_prior, num_and, num_inv, num_same>>
  /\ UNCHANGED <<evalVars, log, main_pc, stats, plotVars, tickVars>>

\* Lines 80-94 with save_to None: the figure is only shown.
FactorFinishShow ==
  /\ fac_pc = "loop"
  /\ fac_i = Len(fac_datasets)
  /\ save_to = <<>>
  /\ fac_lines' = <<[lines |-> FactorLines, xticks |-> FactorXTicks]>>
  /\ fac_pc' = "done"
  /\ UNCHANGED <<fac_datasets, fac_difficulties, save_to, fac_i, factors, factor_counts,
                 num_prior, num_and, num_inv, num_same>>
  /\ UNCHANGED <<evalVars, log, main_pc, stats, plotVars, saved, tickVars>>

\* plot_factors_vs_difficulty(datasets, difficulties, save_to) entered, line 67 done.
InitFactors ==
  /\ EvalIdle
  /\ log = <<>>
  /\ main_pc = "none"
  /\ stats = <<>>
  /\ PlotIdle
  /\ saved = <<>>
  /\ TickIdle
  /\ fac_pc = "loop"
  /\ \E n \in 0..MaxFactorDatasets :
       /\ fac_difficulties = SubSeq(Ladder, 1, n)
       /\ fac_datasets = DatasetsOf(SubSeq(Ladder, 1, n))
  /\ save_to \in {<<>>, <<"images/sha256_factors.pdf">>}
  /\ fac_i = 0
  /\ factors = <<>>
  /\ factor_counts = <<>>
  /\ num_prior = <<>>
  /\ num_and = <<>>
  /\ num_inv = <<>>
  /\ num_same = <<>>
  /\ fac_lines = <<>>

NextFactors == FactorStep \/ FactorFinishSave \/ FactorFinishShow

SpecFactors == InitFactors /\ [][NextFactors]_vars

\* ------------------------------------------------- reading the history
\* The solve calls made for solver s, in the order they were made.
MainCalls(s) == SelectSeq(log, LAMBDA e : e.op = "main" /\ e.solver = s)

\* The positions of the log at which the stats file of s was written.
DumpsAt(s) == {p \in 1..Len(log) : log[p].op = "dump" /\ log[p].solver = s}

\* The positions of the log at which main was called for s.
MainAt(s) == {p \in 1..Len(log) : log[p].op = "main" /\ log[p].solver = s}

\* main raised during the sweep of s.
HasRaised(s) == \E p \in MainAt(s) : log[p].raised

\* The dataset index (0-based) of the first call of the sweep of s that raised.
FailIndex(s) ==
  LET p == CHOOSE q \in MainAt(s) :
             log[q].raised /\ \A r \in MainAt(s) : r < q => ~log[r].raised
  IN log[p].arg

\* The lengths of the four sequences of a record.
Lengths(r) == <<Len(r.problem_size), Len(r.difficulty), Len(r.runtime), Len(r.success)>>

AllLengths(r, n) == Lengths(r) = <<n, n, n, n>>

RECURSIVE ConcatFragments(_, _)
\* Field f of the fragments of datasets 1..k, one after the other.
ConcatFragments(f, k) ==
  IF k = 0 THEN <<>>
  ELSE ConcatFragments(f, k - 1) \o Fragment(datasets[k], instances[k])[f]

IsPrefix(a, b) == Len(a) <= Len(b) /\ SubSeq(b, 1, Len(a)) = a

FieldNames == {"problem_size", "difficulty", "runtime", "success"}

\* ------------------------------------------------------------------- C1
\* C1 as stated: when main raised on dataset k after succeeding on the datasets
\* before it, each of the four sequences of the returned record has length k.
C1_LengthIsFailIndex ==
  (eval_pc = "returned" /\ HasRaised(solver)) =>
     AllLengths(ret[1], FailIndex(solver))

\* C1 (amended): when main raised on dataset k after succeeding on the datasets
\* before it, each of the four sequences of the returned record has as many
\* entries as the datasets 0..k-1 have instances (at least k), and no entry of
\* the failing dataset k is in any of them.
C1_LengthIsInstancesBeforeFailure ==
  (eval_pc = "returned" /\ HasRaised(solver)) =>
     LET k == FailIndex(solver)
         r == ret[1]
         bad == Fragment(datasets[k + 1], 1)
     IN /\ AllLengths(r, SumTo(instances, k))
        /\ Len(r.problem_size) >= k
        /\ \A j \in 1..Len(r.difficulty) :
             /\ r.difficulty[j] # bad.difficulty[1]
             /\ r.problem_size[j] # bad.problem_size[1]

C1_Witness ==
  /\ eval_pc = "returned"
  /\ HasRaised(solver)
  /\ FailIndex(solver) = 2
  /\ Len(ret[1].runtime) > 2

\* ------------------------------------------------------------------- C2
\* C2 as stated: the four sequences of a returned record have equal length, and
\* that length is at most the number of datasets passed in.
C2_LengthAtMostDatasets ==
  eval_pc = "returned" =>
     /\ \E n \in 0..Len(datasets) : AllLengths(ret[1], n)

\* C2 (amended): at every point of the sweep and in the returned record the four
\* sequences have equal length; that length is the number of instances inside
\* the datasets solved so far, which is at least the number of those datasets
\* and at most the number of instances inside all the datasets passed in.
C2_EqualLengths ==
  /\ eval_pc \in {"loop", "dump", "return", "returned"} =>
       /\ AllLengths(total_stats, SumTo(instances, eval_i))
       /\ eval_i <= Len(total_stats.runtime)
       /\ eval_i <= Len(datasets)
       /\ Len(total_stats.runtime) <= SumTo(instances, Len(datasets))
  /\ eval_pc = "returned" =>
       /\ AllLengths(ret[1], SumTo(instances, eval_i))

C2_Witness ==
  /\ eval_pc = "returned"
  /\ Len(ret[1].success) > Len(datasets)
  /\ Len(datasets) >= 2

\* ------------------------------------------------------------------- C3
\* C3: within one sweep main is called on the datasets in the given order from
\* index 0, at most once per dataset, and never again once a call has raised.
C3_InOrderOnceNoRetry ==
  LET calls == MainCalls(solver) IN
  /\ Len(calls) <= Len(datasets)
  /\ \A j \in 1..Len(calls) :
       /\ calls[j].arg = j - 1
       /\ calls[j].raised => j = Len(calls)
  /\ (HasRaised(solver) \/ eval_pc \in {"dump", "return", "returned"}) => ~ENABLED SolveOk

C3_Witness ==
  /\ eval_pc = "returned"
  /\ HasRaised(solver)
  /\ FailIndex(solver) = 1
  /\ Len(MainCalls(solver)) = 2
  /\ Len(datasets) = 3

\* ------------------------------------------------------------------- C4
\* C4: a sweep writes the stats file of its solver exactly once, after its last
\* solve call and before it returns, and the file holds the returned record.
C4_CheckpointOnceAfterLoop ==
  /\ eval_pc = "loop" => DumpsAt(solver) = {}
  /\ eval_pc = "dump" => DumpsAt(solver) = {}
  /\ eval_pc = "return" => Cardinality(DumpsAt(solver)) = 1 /\ ret = <<>>
  /\ eval_pc \in {"return", "returned"} =>
       /\ Cardinality(DumpsAt(solver)) = 1
       /\ \A d \in DumpsAt(solver) : \A m \in MainAt(solver) : m < d
       /\ files[solver] = <<total_stats>>
  /\ eval_pc = "returned" =>
       /\ ret = files[solver]
       /\ ret[1].solver = solver

C4_Witness ==
  /\ eval_pc = "returned"
  /\ HasRaised(solver)
  /\ solver = "minisat"
  /\ Len(files[solver][1].runtime) = 3

\* ------------------------------------------------------------------ C10
\* The record is the fragments of the datasets solved so far, in dataset order.
C10_IsConcatenation ==
  /\ eval_pc \in {"loop", "dump", "return", "returned"} =>
       /\ \A f \in FieldNames : total_stats[f] = ConcatFragments(f, eval_i)
       /\ total_stats.solver = solver
       /\ HasRaised(solver) => eval_i = FailIndex(solver)
       /\ (~HasRaised(solver) /\ eval_pc # "loop") => eval_i = Len(datasets)
  /\ eval_pc = "returned" => ret = <<total_stats>>

\* A step of the sweep leaves the entries collected before it where they were.
C10_StepAppends ==
  (eval_pc = "loop" /\ eval_pc' = "loop") =>
     \A f \in FieldNames : IsPrefix(total_stats[f], total_stats'[f])

\* C10: the returned record is the concatenation, in dataset order, of the
\* fragments returned for the datasets before the first failure; every
\* successful call appends its fragment and leaves the earlier entries alone;
\* the solver field is the solver passed in.
C10_PrefixAccumulation == []C10_IsConcatenation /\ [][C10_StepAppends]_vars

C10_Witness ==
  /\ eval_pc = "returned"
  /\ eval_i = 3
  /\ Len(ret[1].problem_size) = 5
  /\ ~HasRaised(solver)

\* ------------------------------------------------------------------- C5
SolverIndex(s) == CHOOSE k \in 1..Len(SolverList) : SolverList[k] = s

\* Event b may be the external call made right after event a.
Follows(a, b) ==
  IF a.op = "plot_factors"
    THEN b.op = "main" /\ b.arg = 0 /\ b.solver = SolverList[1]
  ELSE IF a.op = "main" /\ ~a.raised
    THEN /\ b.solver = a.solver
         /\ IF a.arg = Len(datasets) - 1 THEN b.op = "dump"
            ELSE b.op = "main" /\ b.arg = a.arg + 1
  ELSE IF a.op = "main"
    THEN b.op = "dump" /\ b.solver = a.solver
  ELSE IF a.op = "dump"
    THEN IF a.solver = SolverList[Len(SolverList)] THEN b.op = "plot_stats"
         ELSE /\ b.op = "main"
              /\ b.arg = 0
              /\ b.solver = SolverList[SolverIndex(a.solver) + 1]
  ELSE FALSE

\* The number of calls of the sweep of s that returned a fragment.
Solved(s) == Cardinality({p \in MainAt(s) : ~log[p].raised})

\* C5: a failure of main never leaves eval_solver.  Whatever fails, the driver
\* sweeps every solver of its list once, in the listed order, each sweep from
\* dataset 0 with a record of its own; the stats file of a solver is written
\* before main is called for the next one; plot_stats is called only after the
\* last sweep has returned.
C5_FailureStaysInSweep ==
  /\ eval_pc \in {"idle", "loop", "dump", "return", "returned"}
  /\ \A p \in 1..Len(log) - 1 : Follows(log[p], log[p + 1])
  /\ log # <<>> => log[1].op = "plot_factors"
  /\ eval_pc \in {"loop", "dump", "return", "returned"} =>
       /\ total_stats.solver = solver
       /\ solver = SolverList[Len(stats) + 1]
       /\ AllLengths(total_stats, SumTo(instances, Solved(solver)))
  /\ \A k \in 1..Len(stats) :
       /\ stats[k].key = SolverList[k]
       /\ stats[k].val.solver = SolverList[k]
       /\ AllLengths(stats[k].val, SumTo(instances, Solved(SolverList[k])))
       /\ files[SolverList[k]] = <<stats[k].val>>
       /\ Cardinality(DumpsAt(SolverList[k])) = 1
  /\ main_pc = "plot" =>
       /\ Len(stats) = Len(SolverList)
       /\ eval_pc = "idle"
       /\ log[Len(log)].op = "plot_stats"

C5_Witness ==
  /\ main_pc = "plot"
  /\ plot_pc = "done"
  /\ HasRaised("gurobi_milp") /\ FailIndex("gurobi_milp") = 0
  /\ HasRaised("cplex_milp") /\ FailIndex("cplex_milp") = 2
  /\ ~HasRaised("minisat")
  /\ HasRaised("crypto_minisat")
  /\ Len(stats[2].val.runtime) = 3

\* ------------------------------------------------------------------- C6
\* C6: the ticks log_ticks returns for a non-empty x contain the data range:
\* min(ticks) <= min(x) and max(ticks) >= max(x).
C6_TicksContainData ==
  tick_pc = "done" =>
     LET t == tick_out[1].ticks IN
     /\ t # <<>>
     /\ SeqMin(t) * Scale <= SeqMin(tick_x)
     /\ SeqMax(t) * Scale >= SeqMax(tick_x)

\* ------------------------------------------------------------------- C7
\* Every record of the mapping has as many runtimes as problem sizes.
WellFormed(m) ==
  \A k \in 1..Len(m) : Len(m[k].val.problem_size) = Len(m[k].val.runtime)

\* C7: plot_stats does not raise, whichever solvers of the mapping (some of them
\* or all of them) have empty arrays.
C7_EmptyDataNeverRaises ==
  (Len(stats) >= 1 /\ WellFormed(stats)) => plot_pc # "raised"

\* ------------------------------------------------------------------- C9
\* The items of the mapping that have data, in iteration order.
WithData(m) ==
  SelectSeq(m, LAMBDA it : ~IsEmptyData(it.val.problem_size, it.val.runtime))

\* Two colors are the same: the same color map at the same sample.
SameColor(c, d) == c.cmap = d.cmap /\ c.at[1] * d.at[2] = d.at[1] * c.at[2]

\* The j-th solver drawn is drawn, points and line, in sample j of n samples.
DrawnInSample(j, n) ==
  /\ SameColor(drawn[j].scatter_color, Colors(n)[j])
  /\ SameColor(drawn[j].line_color, Colors(n)[j])

\* C9 as stated: the j-th solver with data is drawn in sample j of N evenly
\* spaced samples, N the number of solvers with data.
C9_SampledOverSolversWithData ==
  WellFormed(stats) =>
     \A j \in 1..Len(drawn) : DrawnInSample(j, Len(WithData(stats)))

\* C9 (amended): the j-th solver with data, in iteration order, is drawn,
\* points and line alike, in sample j of M evenly spaced samples, M the number
\* of all solvers of the mapping, the skipped ones included.
C9_SampledOverAllSolvers ==
  /\ Len(drawn) <= Len(WithData(stats))
  /\ \A j \in 1..Len(drawn) :
       /\ drawn[j].solver = WithData(stats)[j].key
       /\ DrawnInSample(j, Len(stats))
  /\ plot_pc = "done" => Len(drawn) = Len(WithData(stats))

C9_Witness ==
  /\ plot_pc = "done"
  /\ Len(stats) = 3
  /\ Len(drawn) = 2
  /\ skipped = <<stats[2].key>>
  /\ ~DrawnInSample(2, 2)

\* ------------------------------------------------------------------- C8
\* The number of factors of the collection fs that carry the tag t.
CountTag(fs, t) == Cardinality({k \in DOMAIN fs : fs[k].factor_type = t})

\* Each series has one entry per dataset tallied, and the last entries are the
\* counts of the collection loaded last.
C8_LastCounts ==
  /\ fac_i <= Len(fac_datasets)
  /\ Len(num_prior) = fac_i
  /\ Len(num_same) = fac_i
  /\ Len(num_and) = fac_i
  /\ Len(num_inv) = fac_i
  /\ fac_i > 0 =>
       /\ num_prior[fac_i] = CountTag(factors, "PRIOR")
       /\ num_same[fac_i] = CountTag(factors, "SAME")
       /\ num_and[fac_i] = CountTag(factors, "AND")
       /\ num_inv[fac_i] = CountTag(factors, "INV")
  /\ fac_pc = "done" =>
       /\ fac_i = Len(fac_datasets)
       /\ fac_lines[1].lines = FactorLines

\* A step extends each series by at most one entry and keeps the entries of the
\* datasets before it.
C8_SeriesGrow ==
  /\ IsPrefix(num_prior, num_prior')
  /\ IsPrefix(num_same, num_same')
  /\ IsPrefix(num_and, num_and')
  /\ IsPrefix(num_inv, num_inv')
  /\ Len(num_prior') <= Len(num_prior) + 1

\* C8: for every dataset the values appended to the PRIOR, SAME, AND and INV
\* series are the numbers of factors carrying exactly that tag (0 when none);
\* factors with another tag change no count; after the loop each series has one
\* entry per dataset, in dataset order.
C8_TallyPerDataset == []C8_LastCounts /\ [][C8_SeriesGrow]_vars

C8_Witness ==
  /\ fac_pc = "done"
  /\ num_prior = <<2, 0>>
  /\ num_and = <<0, 1>>
  /\ num_same = <<0, 0>>
  /\ num_inv = <<0, 0>>
  /\ \E k \in DOMAIN factors : factors[k].factor_type = "XOR"

====
